---- MODULE Spec2Model ----
(***************************************************************************)
(* Model of the ESP8266 AT driver (src/src/lib.rs, src/src/commands.rs):   *)
(* the command encoder, the line framer read_serial, the classifier and    *)
(* +IPD extractor get_response, the exchange loop send_command and the     *)
(* public operations built on it.  Bytes are their ASCII codes.            *)
(***************************************************************************)
EXTENDS Integers, Sequences, FiniteSets, TLC

\* ------------------------------------------------------------------ bounds
\* lines the modem may emit during one public operation
MaxLines == 5
\* faults during one public operation: lines other than the one the operation
\* waits for ("OK", and the +IPD frame for read_network_data), failed reads
\* and failed writes of the transport
MaxFaults == 1
\* a read error hits one of the first MaxErrPos rx.read() calls of a read_serial
MaxErrPos == 3
\* longest payload of the +IPD frames enumerated over PayloadBytes
MaxPayload == 3
\* text lines in one enumerated input stream
MaxText == 2

\* --------------------------------------------------------- program constants
CR == 13
LF == 10
COLON == 58
ZERO == 48
BufCap == 64
DelayMs == 200
U8 == 256

\* ------------------------------------------------------------ byte strings
s_OK == <<79, 75>>
s_FAIL == <<70, 65, 73, 76>>
s_ready == <<114, 101, 97, 100, 121>>
s_PROMPT == <<62, 32>>
s_Recv == <<82, 101, 99, 118>>
s_ALREADY_CONNECTED == <<65, 76, 82, 69, 65, 68, 89, 32, 67, 79, 78, 78, 69, 67, 84, 69, 68>>
s_WIFI_CONNECTED == <<87, 73, 70, 73, 32, 67, 79, 78, 78, 69, 67, 84, 69, 68>>
s_WIFI_GOT_IP == <<87, 73, 70, 73, 32, 71, 79, 84, 32, 73, 80>>
s_WIFI_DISCONNECT == <<87, 73, 70, 73, 32, 68, 73, 83, 67, 79, 78, 78, 69, 67, 84>>
s_IPD == <<43, 73, 80, 68>>

\* the strings of str_to_response / response_to_str that get_response does not
\* use (commands.rs 328-374): "ERROR", ">", "busy s...", "busy p...", ",CONNECT",
\* ",CLOSED", "+STA_CONNECTED:", "+DIST_STA_IP:", "+STA_DISCONNECTED:",
\* "UNKNOWN COMMAND", "UNREACHABLE!"
s_ERROR == <<69, 82, 82, 79, 82>>
s_GT == <<62>>
s_busy_s == <<98, 117, 115, 121, 32, 115, 46, 46, 46>>
s_busy_p == <<98, 117, 115, 121, 32, 112, 46, 46, 46>>
s_X_CONNECT == <<44, 67, 79, 78, 78, 69, 67, 84>>
s_X_CLOSED == <<44, 67, 76, 79, 83, 69, 68>>
s_STA_CONNECTED == <<43, 83, 84, 65, 95, 67, 79, 78, 78, 69, 67, 84, 69, 68, 58>>
s_DIST_STA_IP == <<43, 68, 73, 83, 84, 95, 83, 84, 65, 95, 73, 80, 58>>
s_STA_DISCONNECTED == <<43, 83, 84, 65, 95, 68, 73, 83, 67, 79, 78, 78, 69, 67, 84, 69, 68, 58>>
s_UNKNOWN_COMMAND == <<85, 78, 75, 78, 79, 87, 78, 32, 67, 79, 77, 77, 65, 78, 68>>
s_UNREACHABLE == <<85, 78, 82, 69, 65, 67, 72, 65, 66, 76, 69, 33>>

\* wire texts of the encoder
s_AT == <<65, 84>>
s_ATE1 == <<65, 84, 69, 49>>
s_ATE0 == <<65, 84, 69, 48>>
s_AT_RST == <<65, 84, 43, 82, 83, 84>>
s_AT_CIFSR == <<65, 84, 43, 67, 73, 70, 83, 82>>
s_AT_CWJAP == <<65, 84, 43, 67, 87, 74, 65, 80, 61>>
s_AT_CWMODE == <<65, 84, 43, 67, 87, 77, 79, 68, 69, 61>>
s_AT_CIPMUX == <<65, 84, 43, 67, 73, 80, 77, 85, 88, 61>>
s_AT_CIPSERVER == <<65, 84, 43, 67, 73, 80, 83, 69, 82, 86, 69, 82, 61>>
s_AT_CIPSTART == <<65, 84, 43, 67, 73, 80, 83, 84, 65, 82, 84, 61>>
s_AT_CIPSEND == <<65, 84, 43, 67, 73, 80, 83, 69, 78, 68, 61>>
\* "commands::AT_commands::NO_COMMAND"
s_NO_COMMAND == <<99, 111, 109, 109, 97, 110, 100, 115, 58, 58, 65, 84, 95, 99, 111, 109, 109, 97, 110, 100, 115, 58, 58, 78, 79, 95, 67, 79, 77, 77, 65, 78, 68>>
\* QUOTE as the apostrophe
QUOTE_single == <<39>>

QUOTE == <<34>>
COMMA == <<44>>
s_UDP == <<85, 68, 80>>
s_ANYADDR == <<48, 46, 48, 46, 48, 46, 48>>

\* ----------------------------------------------------------------- helpers
\* element i (0-based) of a zero-initialised array whose written prefix is b
At(b, i) == IF i < Len(b) THEN b[i + 1] ELSE 0

\* [u8]::starts_with on the zero-initialised 64-byte array with prefix b
starts_with(b, p) == \A i \in 1..Len(p) : At(b, i - 1) = p[i]

Prefix(s, k) == SubSeq(s, 1, k)

RECURSIVE Pow10(_)
Pow10(i) == IF i = 0 THEN 1 ELSE 10 * Pow10(i - 1)

\* fmt::Display of an unsigned integer: decimal, most significant digit first
RECURSIVE Dec(_)
Dec(n) == IF n < 10 THEN <<ZERO + n>> ELSE Append(Dec(n \div 10), ZERO + (n % 10))

\* ------------------------------------------------------------- read_serial
\* one call of block!(self.rx.read()).ok(): the call number errAt fails,
\* an empty stream blocks, otherwise the next byte of the stream is consumed
Blocked == [blk |-> TRUE, some |-> FALSE, byte |-> 0, rest |-> <<>>]

rx_read(s, n, errAt) ==
    IF n + 1 = errAt THEN [blk |-> FALSE, some |-> FALSE, byte |-> 0, rest |-> s]
    ELSE IF s = <<>> THEN Blocked
    ELSE [blk |-> FALSE, some |-> TRUE, byte |-> Head(s), rest |-> Tail(s)]

RsBlocked == [blk |-> TRUE, ok |-> FALSE, buffer |-> <<>>, rest |-> <<>>, stop |-> "blocked",
              missed_byte |-> 0, parse_missed_byte |-> FALSE, reads |-> 0]

RsDone(okv, buf, rest, stop, mb, pmb, n) ==
    [blk |-> FALSE, ok |-> okv, buffer |-> buf, rest |-> rest, stop |-> stop,
     missed_byte |-> mb, parse_missed_byte |-> pmb, reads |-> n]

\* AfterCR keeping the carriage return of a CR LF pair in the line
AfterCR_keepsCR(buf, r2, n) ==
    IF r2.blk THEN RsBlocked
    ELSE IF ~r2.some THEN RsDone(TRUE, buf, r2.rest, "cr_err", 0, FALSE, n)
    ELSE IF r2.byte = LF THEN RsDone(TRUE, Append(buf, CR), r2.rest, "crlf", 0, FALSE, n)
    ELSE RsDone(TRUE, buf, r2.rest, "bare_cr", r2.byte, TRUE, n)

\* what happens after a carriage return was read inside the line (lib.rs 522-531)
AfterCR(buf, r2, n) ==
    IF r2.blk THEN RsBlocked
    ELSE IF ~r2.some THEN RsDone(TRUE, buf, r2.rest, "cr_err", 0, FALSE, n)
    ELSE IF r2.byte = LF THEN RsDone(TRUE, buf, r2.rest, "crlf", 0, FALSE, n)
    ELSE RsDone(TRUE, buf, r2.rest, "bare_cr", r2.byte, TRUE, n)

\* the loop "for elem in buffer" (lib.rs 513-539): the first element takes
\* first_byte unless parsed_first_byte; then byte number k of the stream s is
\* read by call number n + k, until the array is full, a read fails, the
\* stream is empty or a carriage return is read
read_line(s, n, errAt, first_byte, parsed_first_byte) ==
    LET pre == IF parsed_first_byte THEN <<>> ELSE <<first_byte>>
        room == BufCap - Len(pre)
        Stops(k) == k = room + 1 \/ n + k = errAt \/ k > Len(s) \/ s[k] = CR
        k == CHOOSE i \in 1..(room + 1) : Stops(i) /\ \A j \in 1..(i - 1) : ~Stops(j)
        buf == pre \o SubSeq(s, 1, k - 1)
    IN  IF k = room + 1
        THEN RsDone(TRUE, buf, SubSeq(s, k, Len(s)), "full", 0, FALSE, n + k - 1)
        ELSE IF n + k = errAt
        THEN RsDone(FALSE, buf, SubSeq(s, k, Len(s)), "err", 0, FALSE, n + k)
        ELSE IF k > Len(s) THEN RsBlocked
        ELSE AfterCR(buf, rx_read(SubSeq(s, k + 1, Len(s)), n + k, errAt), n + k + 1)

\* the loop "while first_byte == 0" (lib.rs 499-508), then the line loop
RECURSIVE read_serial(_, _, _)
read_serial(s, n, errAt) ==
    LET r == rx_read(s, n, errAt)
        first_byte == IF r.some THEN r.byte ELSE 0
    IN  IF r.blk THEN RsBlocked
        ELSE IF first_byte = CR
        THEN LET r2 == rx_read(r.rest, n + 1, errAt) IN
             IF r2.blk THEN RsBlocked
             ELSE read_line(r2.rest, n + 2, errAt, first_byte, r2.some)
        ELSE IF first_byte = 0 THEN read_serial(r.rest, n + 1, errAt)
        ELSE read_line(r.rest, n + 1, errAt, first_byte, FALSE)

\* ------------------------------------------------------------ get_response
\* the scan "while buffer[index] != b':'" from index 5 (lib.rs 433-438);
\* BufCap when it runs past the end of the array (index out of bounds)
ColonIndex(b) ==
    IF \E i \in 5..(BufCap - 1) : At(b, i) = COLON
    THEN CHOOSE i \in 5..(BufCap - 1) :
            /\ At(b, i) = COLON
            /\ \A j \in 5..(i - 1) : At(b, j) # COLON
    ELSE BufCap

\* the u8 sum of lib.rs 439-441, terms i..num_digit-1 added to acc; with
\* overflow checks an overflowing step panics (result -1), without it wraps
RECURSIVE DataLen(_, _, _, _, _)
DataLen(b, num_digit, i, acc, checks) ==
    IF i >= num_digit THEN acc
    ELSE LET d == At(b, 4 + num_digit - i) - ZERO
             p == Pow10(i)
             m == (d % U8) * (p % U8)
             t == acc + (m % U8)
         IN  IF checks /\ (d < 0 \/ p >= U8 \/ m >= U8 \/ t >= U8) THEN -1
             ELSE DataLen(b, num_digit, i + 1, t % U8, checks)

\* CopyData copying from the colon on
CopyData_fromColon(b, index, data_len, data) ==
    [j \in 1..Len(data) |-> IF j <= data_len THEN At(b, index + j - 1) ELSE data[j]]

\* the caller's buffer after the copy loop of lib.rs 443-447
CopyData(b, index, data_len, data) ==
    [j \in 1..Len(data) |-> IF j <= data_len THEN At(b, index + j) ELSE data[j]]

\* Classify without the test for "Recv"
Classify_noRecv(b) ==
    IF starts_with(b, s_OK) THEN "OK"
    ELSE IF starts_with(b, s_FAIL) THEN "FAIL"
    ELSE IF starts_with(b, s_ready) THEN "ready"
    ELSE IF starts_with(b, s_PROMPT) THEN "ready_to_send"
    ELSE IF starts_with(b, s_ALREADY_CONNECTED) THEN "ALREADY_CONNECTED"
    ELSE IF starts_with(b, s_WIFI_CONNECTED) THEN "WIFI_CONNECTED"
    ELSE IF starts_with(b, s_WIFI_GOT_IP) THEN "WIFI_GOT_IP"
    ELSE IF starts_with(b, s_WIFI_DISCONNECT) THEN "WIFI_DISCONNECT"
    ELSE "UNKNOWN_COMMAND"

\* the prefix table of lib.rs 454-474
Classify(b) ==
    IF starts_with(b, s_OK) THEN "OK"
    ELSE IF starts_with(b, s_FAIL) THEN "FAIL"
    ELSE IF starts_with(b, s_ready) THEN "ready"
    ELSE IF starts_with(b, s_PROMPT) THEN "ready_to_send"
    ELSE IF starts_with(b, s_Recv) THEN "OK"
    ELSE IF starts_with(b, s_ALREADY_CONNECTED) THEN "ALREADY_CONNECTED"
    ELSE IF starts_with(b, s_WIFI_CONNECTED) THEN "WIFI_CONNECTED"
    ELSE IF starts_with(b, s_WIFI_GOT_IP) THEN "WIFI_GOT_IP"
    ELSE IF starts_with(b, s_WIFI_DISCONNECT) THEN "WIFI_DISCONNECT"
    ELSE "UNKNOWN_COMMAND"

GrResult(blk, panic, response, data_len, data, rs) ==
    [blk |-> blk, panic |-> panic, response |-> response, data_len |-> data_len,
     data |-> data, buffer |-> rs.buffer, rest |-> rs.rest, read_ok |-> rs.ok,
     stop |-> rs.stop, reads |-> rs.reads, missed_byte |-> rs.missed_byte,
     parse_missed_byte |-> rs.parse_missed_byte]

\* get_response once read_serial has returned rs, with the caller's buffer
\* data; the result of read_serial (rs.ok) is not looked at (lib.rs 412)
Respond(rs, data, checks) ==
    LET b == rs.buffer
        index == ColonIndex(b)
        data_len == DataLen(b, index - 5, 0, 0, checks)
    IN  IF rs.blk THEN GrResult(TRUE, FALSE, "UNKNOWN_COMMAND", 0, data, rs)
        ELSE IF starts_with(b, s_IPD)
        THEN IF \/ index = BufCap
                \/ data_len < 0
                \/ index + data_len > BufCap - 1 /\ data_len > 0
                \/ data_len > Len(data)
             THEN GrResult(FALSE, TRUE, "UNKNOWN_COMMAND", 0, data, rs)
             ELSE GrResult(FALSE, FALSE, "IPD", data_len,
                           CopyData(b, index, data_len, data), rs)
        ELSE GrResult(FALSE, FALSE, Classify(b), 0, data, rs)

get_response(s, errAt, data, checks) == Respond(read_serial(s, 0, errAt), data, checks)

\* the builds in which the arithmetic of the buffer can differ: with overflow
\* checks (TRUE) and, for a +IPD line only, without
Builds(b) == IF starts_with(b, s_IPD) THEN BOOLEAN ELSE {TRUE}

\* ------------------------------------------------------- command encoder
Cmd(name, args) == [name |-> name, args |-> args]

Enc(text, exp, endc, cap) ==
    [send_ |-> text, expected |-> exp, endChar |-> endc, panic |-> cap /\ Len(text) > BufCap]

\* Sentinel expecting OK
Sentinel_expectsOK == Enc(s_NO_COMMAND, "OK", TRUE, FALSE)

\* Sentinel without the terminator
Sentinel_noTerminator == Enc(s_NO_COMMAND, "UNKNOWN_COMMAND", FALSE, FALSE)

\* the fallback arm of the match of send_command (lib.rs 364-368)
Sentinel == Enc(s_NO_COMMAND, "UNKNOWN_COMMAND", TRUE, FALSE)

\* the match of send_command (lib.rs 301-369); panic is the unwrap of a
\* write! that does not fit the 64-byte cmd_buffer
Encode(cmd) ==
    LET a == cmd.args IN
    CASE cmd.name = "AT" -> Enc(s_AT, "OK", TRUE, FALSE)
      [] cmd.name = "ATE" -> IF a[1] = TRUE THEN Enc(s_ATE1, "OK", TRUE, FALSE)
                             ELSE Enc(s_ATE0, "OK", TRUE, FALSE)
      [] cmd.name = "RST" -> Enc(s_AT_RST, "ready", TRUE, FALSE)
      [] cmd.name = "CWJAP" ->
            Enc(s_AT_CWJAP \o QUOTE \o a[1] \o QUOTE \o COMMA \o QUOTE \o a[2] \o QUOTE,
                "OK", TRUE, TRUE)
      [] cmd.name = "CWMODE" -> Enc(s_AT_CWMODE \o Dec(a[1]), "OK", TRUE, TRUE)
      [] cmd.name = "CIFSR" -> Enc(s_AT_CIFSR, "OK", TRUE, FALSE)
      [] cmd.name = "CIPMUX" -> Enc(s_AT_CIPMUX \o Dec(a[1]), "OK", TRUE, TRUE)
      [] cmd.name = "CIPSERVER" -> Enc(s_AT_CIPSERVER \o Dec(a[1]), "OK", TRUE, TRUE)
      [] cmd.name = "CIPSERVER_EXT" ->
            Enc(s_AT_CIPSERVER \o Dec(a[1]) \o COMMA \o Dec(a[2]), "OK", TRUE, TRUE)
      [] cmd.name = "CIPSTART" ->
            Enc(s_AT_CIPSTART \o QUOTE \o a[1] \o QUOTE \o COMMA \o QUOTE \o a[2] \o QUOTE
                    \o COMMA \o Dec(a[3]), "OK", TRUE, TRUE)
      [] cmd.name = "CIPSTART_EXT" ->
            Enc(s_AT_CIPSTART \o QUOTE \o a[1] \o QUOTE \o COMMA \o QUOTE \o a[2] \o QUOTE
                    \o COMMA \o Dec(a[3]) \o COMMA \o Dec(a[4]) \o COMMA \o Dec(a[5]),
                "OK", TRUE, TRUE)
      [] cmd.name = "CIPSEND" -> Enc(s_AT_CIPSEND \o Dec(a[1]), "OK", TRUE, TRUE)
      [] cmd.name = "SEND" -> Enc(a[1], "OK", FALSE, TRUE)
      [] OTHER -> Sentinel

\* Wire with the terminator after every buffer
Wire_always(buffer, endc) == buffer \o <<CR, LF>>

\* the bytes write_serial hands to the transport when nothing fails (lib.rs 481-493)
Wire(buffer, endc) == IF endc THEN buffer \o <<CR, LF>> ELSE buffer

\* write_serial: the write of byte number failAt (0-based) fails and ends the
\* call ("?"); failAt = -1 when every write succeeds
write_serial(buffer, endc, failAt) ==
    IF failAt = -1 THEN Wire(buffer, endc) ELSE Prefix(Wire(buffer, endc), failAt)

\* ------------------------------------------------------ public operations
Op(name, args) == [name |-> name, args |-> args]

\* OpCommands with init sending AT before ATE0
OpCommands_atFirst(o) ==
    CASE o.name = "init" -> <<Cmd("AT", <<>>), Cmd("ATE", <<FALSE>>)>>
      [] o.name = "join_AP" -> <<Cmd("CWJAP", <<o.args[1], o.args[2]>>), Cmd("CIFSR", <<>>)>>
      [] o.name = "get_IP" -> <<Cmd("CIFSR", <<>>)>>
      [] o.name = "tcp_server" ->
            <<Cmd("CWMODE", <<1>>), Cmd("CIPMUX", <<1>>), Cmd("CIPSERVER_EXT", <<1, o.args[1]>>)>>
      [] o.name = "udp_server" ->
            <<Cmd("CWMODE", <<1>>), Cmd("CIPMUX", <<0>>),
              Cmd("CIPSTART_EXT", <<s_UDP, s_ANYADDR, o.args[1], o.args[1], 2>>),
              Cmd("CIPSEND", <<4>>)>>
      [] o.name = "send_data" ->
            <<Cmd("CIPSEND", <<Len(o.args[1]) % 65536>>), Cmd("SEND", <<o.args[1]>>)>>
      [] o.name = "send" -> <<o.args[1]>>
      [] OTHER -> <<>>

\* the commands an operation hands to send, in order (lib.rs 84-268);
\* "send" is the private send called with one command
OpCommands(o) ==
    CASE o.name = "init" -> <<Cmd("ATE", <<FALSE>>), Cmd("AT", <<>>)>>
      [] o.name = "join_AP" -> <<Cmd("CWJAP", <<o.args[1], o.args[2]>>), Cmd("CIFSR", <<>>)>>
      [] o.name = "get_IP" -> <<Cmd("CIFSR", <<>>)>>
      [] o.name = "tcp_server" ->
            <<Cmd("CWMODE", <<1>>), Cmd("CIPMUX", <<1>>), Cmd("CIPSERVER_EXT", <<1, o.args[1]>>)>>
      [] o.name = "udp_server" ->
            <<Cmd("CWMODE", <<1>>), Cmd("CIPMUX", <<0>>),
              Cmd("CIPSTART_EXT", <<s_UDP, s_ANYADDR, o.args[1], o.args[1], 2>>),
              Cmd("CIPSEND", <<4>>)>>
      [] o.name = "send_data" ->
            <<Cmd("CIPSEND", <<Len(o.args[1]) % 65536>>), Cmd("SEND", <<o.args[1]>>)>>
      [] o.name = "send" -> <<o.args[1]>>
      [] OTHER -> <<>>

\* StatusOps with send_data storing the outcome in connection_status too
StatusOps_withSendData == {"init", "join_AP", "get_IP", "tcp_server", "udp_server", "send_data"}

\* operations that store the outcome of send in connection_status
StatusOps == {"init", "join_AP", "get_IP", "tcp_server", "udp_server"}

\* send reporting a failure of the exchange
send_err(cmd) == "Err"

\* send (lib.rs 288-291) returns Ok(()) whatever send_command did
send(cmd) == "Ok"

\* --------------------------------------------------------- exchange engine
\* React with FAIL taken for an answer that ends the exchange
React_failEnds(cmd, exp) ==
    IF cmd = exp \/ cmd = "FAIL" THEN "found"
    ELSE IF cmd = "ERROR" THEN "resend"
    ELSE IF cmd = "ALREADY_CONNECTED" THEN "found"
    ELSE IF cmd = "WIFI_CONNECTED" THEN "link_up"
    ELSE IF cmd = "WIFI_DISCONNECT" THEN "link_down"
    ELSE IF cmd = "WIFI_GOT_IP" THEN "address"
    ELSE "delay_resend"

\* React with the last branch doing nothing
React_noRetry(cmd, exp) ==
    IF cmd = exp THEN "found"
    ELSE IF cmd = "ERROR" THEN "resend"
    ELSE IF cmd = "ALREADY_CONNECTED" THEN "found"
    ELSE IF cmd = "WIFI_CONNECTED" THEN "link_up"
    ELSE IF cmd = "WIFI_DISCONNECT" THEN "link_down"
    ELSE IF cmd = "WIFI_GOT_IP" THEN "address"
    ELSE "ignore"

\* React with the ALREADY_CONNECTED branch left out
React_noAlready(cmd, exp) ==
    IF cmd = exp THEN "found"
    ELSE IF cmd = "ERROR" THEN "resend"
    ELSE IF cmd = "WIFI_CONNECTED" THEN "link_up"
    ELSE IF cmd = "WIFI_DISCONNECT" THEN "link_down"
    ELSE IF cmd = "WIFI_GOT_IP" THEN "address"
    ELSE "delay_resend"

\* React never finding the expected kind
React_neverFound(cmd, exp) ==
    IF cmd = "ERROR" THEN "resend"
    ELSE IF cmd = "WIFI_CONNECTED" THEN "link_up"
    ELSE IF cmd = "WIFI_DISCONNECT" THEN "link_down"
    ELSE IF cmd = "WIFI_GOT_IP" THEN "address"
    ELSE "delay_resend"

\* the if-chain of send_command on the kind cmd of a line (lib.rs 379-399):
\* which branch is taken when exp is the command's expected kind
React(cmd, exp) ==
    IF cmd = exp THEN "found"
    ELSE IF cmd = "ERROR" THEN "resend"
    ELSE IF cmd = "ALREADY_CONNECTED" THEN "found"
    ELSE IF cmd = "WIFI_CONNECTED" THEN "link_up"
    ELSE IF cmd = "WIFI_DISCONNECT" THEN "link_down"
    ELSE IF cmd = "WIFI_GOT_IP" THEN "address"
    ELSE "delay_resend"

\* connection_status after the branch r (lib.rs 387, 390)
NextStatus(r, cs) == IF r = "link_up" THEN TRUE ELSE IF r = "link_down" THEN FALSE ELSE cs

\* NextGotIp with WIFI DISCONNECT leaving got_ip alone
NextGotIp_keptOnDisconnect(r, gi) == IF r = "address" THEN TRUE ELSE gi

\* got_ip after the branch r (lib.rs 391, 394)
NextGotIp(r, gi) == IF r = "address" THEN TRUE ELSE IF r = "link_down" THEN FALSE ELSE gi

\* the branches that call write_serial again (lib.rs 383, 398)
Resends(r) == r \in {"resend", "delay_resend"}

\* ------------------------------------------------------------------ inputs
\* "ap", "pw", "hi"
t_ssid == <<97, 112>>
t_pwd == <<112, 119>>
t_data == <<104, 105>>
Port == 80
\* length of the buffer the caller hands to read_network_data
ReadBufLen == 4

Ops ==
    { Op("init", <<>>), Op("join_AP", <<t_ssid, t_pwd>>), Op("get_IP", <<>>),
      Op("tcp_server", <<Port>>), Op("udp_server", <<Port>>), Op("send_data", <<t_data>>),
      Op("read_network_data", <<ReadBufLen>>),
      Op("send", <<Cmd("RST", <<>>)>>), Op("send", <<Cmd("GMR", <<>>)>>) }

\* lines of the modem: "ERROR", "FAIL", "> ", "ready", "ALREADY CONNECTED",
\* "WIFI CONNECTED", "WIFI GOT IP", "WIFI DISCONNECT", "Recv 2 bytes", "SEND OK",
\* "+IPD,2:hi", "A\rBC" (a carriage return inside the line), "" (an empty line)
l_ERROR == <<69, 82, 82, 79, 82>>
l_Recv == <<82, 101, 99, 118, 32, 50, 32, 98, 121, 116, 101, 115>>
l_SEND_OK == <<83, 69, 78, 68, 32, 79, 75>>
l_IPD == <<43, 73, 80, 68, 44, 50, 58, 104, 105>>
l_bare_cr == <<65, 13, 66, 67>>

NoiseLines ==
    { l_ERROR, s_FAIL, s_PROMPT, s_ready, s_ALREADY_CONNECTED, s_WIFI_CONNECTED,
      s_WIFI_GOT_IP, s_WIFI_DISCONNECT, l_Recv, l_SEND_OK, l_IPD, l_bare_cr, <<>> }

Lines == {s_OK} \cup NoiseLines

Zeros(n) == [j \in 1..n |-> 0]

\* ------------------------------------------------------------------- state
VARIABLES
    connection_status, got_ip, ip,   \* Device State (lib.rs 27-29)
    rx,                              \* bytes on the wire not yet read
    pc, op, step,                    \* position in the running public operation
    send_, expected, endChar,        \* locals of send_command
    chk,                             \* local of send_data
    data,                            \* the caller's buffer of read_network_data
    result,                          \* what the operation returned
    last,                            \* the last get_response call
    log,                             \* transport and delay events of the operation
    old, xold,                       \* Device State at the call / at the exchange start
    x0,                              \* length of log when the exchange started
    lines, faults                    \* environment budgets of the operation

vars == <<connection_status, got_ip, ip, rx, pc, op, step, send_, expected, endChar,
          chk, data, result, last, log, old, xold, x0, lines, faults>>

DeviceState == <<connection_status, got_ip, ip>>

\* log entries: a write_serial call with the bytes the transport took and
\* whether the call succeeded; a delay_ms call; a get_response call with the
\* kind it returned, the line buffer it classified and the result of read_serial
EvWrite(bytes, okv) == [ev |-> "write", bytes |-> bytes, ok |-> okv, kind |-> "", ms |-> 0]
EvDelay(ms) == [ev |-> "delay", bytes |-> <<>>, ok |-> TRUE, kind |-> "", ms |-> ms]
EvResp(kind, line, okv) == [ev |-> "resp", bytes |-> line, ok |-> okv, kind |-> kind, ms |-> 0]

\* Pause without the delay
Pause_none(r) == <<>>

\* the delay of the last branch (lib.rs 397)
Pause(r) == IF r = "delay_resend" THEN <<EvDelay(DelayMs)>> ELSE <<>>

NoCall == GrResult(FALSE, FALSE, "UNKNOWN_COMMAND", 0, <<>>, RsBlocked) @@ [errAt |-> 0]

\* esp8266::new (lib.rs 69-80)
Init ==
    /\ connection_status = FALSE
    /\ got_ip = FALSE
    /\ ip = <<0, 0, 0, 0>>
    /\ rx = <<>>
    /\ pc = "idle"
    /\ op = Op("none", <<>>)
    /\ step = 0
    /\ send_ = <<>>
    /\ expected = "UNKNOWN_COMMAND"
    /\ endChar = FALSE
    /\ chk = FALSE
    /\ data = <<>>
    /\ result = "none"
    /\ last = NoCall
    /\ log = <<>>
    /\ old = <<FALSE, FALSE, <<0, 0, 0, 0>>>>
    /\ xold = <<FALSE, FALSE, <<0, 0, 0, 0>>>>
    /\ x0 = 0
    /\ lines = 0
    /\ faults = 0

\* the positions at which a write of buffer may fail: nowhere, or, while the
\* budget (of which used is spent) lasts, at the first byte or right after the text
FailChoices(buffer, endc, used) ==
    {-1} \cup IF used < MaxFaults
              THEN {k \in {0, Len(buffer)} : k < Len(Wire(buffer, endc))}
              ELSE {}

\* the rx.read() call that fails in one read_serial: none (0), or one of the first
ErrChoices == {0} \cup IF faults < MaxFaults THEN 1..MaxErrPos ELSE {}

\* a caller enters a public operation
Call(o) ==
    /\ pc = "idle"
    /\ rx = <<>>
    /\ op' = o
    /\ step' = 1
    /\ pc' = IF o.name = "read_network_data" THEN "read" ELSE "send"
    /\ data' = IF o.name = "read_network_data" THEN Zeros(o.args[1]) ELSE <<>>
    /\ chk' = FALSE
    /\ result' = "none"
    /\ log' = <<>>
    /\ old' = DeviceState
    /\ xold' = DeviceState
    /\ x0' = 0
    /\ send_' = <<>>
    /\ expected' = "UNKNOWN_COMMAND"
    /\ endChar' = FALSE
    /\ last' = NoCall
    /\ lines' = 0 /\ faults' = 0
    /\ UNCHANGED <<connection_status, got_ip, ip, rx>>

\* send_command up to its loop: encode, first write (lib.rs 294-373)
SendCommand ==
    /\ pc = "send"
    /\ LET e == Encode(OpCommands(op)[step]) IN
       IF e.panic
       THEN /\ pc' = "panic"
            /\ UNCHANGED <<send_, expected, endChar, log, faults, xold, x0>>
       ELSE \E f \in FailChoices(e.send_, e.endChar, faults) :
            /\ send_' = e.send_
            /\ expected' = e.expected
            /\ endChar' = e.endChar
            /\ log' = Append(log, EvWrite(write_serial(e.send_, e.endChar, f), f = -1))
            /\ faults' = IF f = -1 THEN faults ELSE faults + 1
            /\ xold' = DeviceState
            /\ x0' = Len(log)
            /\ pc' = "await"
    /\ UNCHANGED <<connection_status, got_ip, ip, rx, op, step, chk, data, result, last,
                   old, lines>>

\* one iteration of the loop of send_command (lib.rs 374-403)
AwaitResponse ==
    /\ pc = "await"
    /\ \E errAt \in ErrChoices : \E rs \in {read_serial(rx, 0, errAt)} :
       LET e1 == IF errAt = 0 THEN faults ELSE faults + 1 IN
       /\ ~rs.blk
       /\ errAt <= rs.reads
       /\ \E checks \in Builds(rs.buffer) : \E g \in {Respond(rs, Zeros(BufCap), checks)} :
           LET r == React(g.response, expected) IN
           /\ rx' = g.rest
           /\ last' = g @@ [errAt |-> errAt]
           /\ IF g.panic
              THEN /\ pc' = "panic"
                   /\ faults' = e1
                   /\ UNCHANGED <<connection_status, got_ip, log>>
              ELSE /\ pc' = IF r = "found" THEN "sent" ELSE "await"
                   /\ connection_status' = NextStatus(r, connection_status)
                   /\ got_ip' = NextGotIp(r, got_ip)
                   /\ IF Resends(r)
                      THEN \E f \in FailChoices(send_, endChar, e1) :
                           /\ log' = log \o <<EvResp(g.response, g.buffer, g.read_ok)>>
                                         \o Pause(r)
                                         \o <<EvWrite(write_serial(send_, endChar, f), f = -1)>>
                           /\ faults' = IF f = -1 THEN e1 ELSE e1 + 1
                      ELSE /\ log' = Append(log, EvResp(g.response, g.buffer, g.read_ok))
                           /\ faults' = e1
    /\ UNCHANGED <<ip, op, step, send_, expected, endChar, chk, data, result, old, xold, x0,
                   lines>>

\* send has returned: the match arm of the operation, then its next command
\* or its return value (lib.rs 86-107 and alike)
AfterSend ==
    /\ pc = "sent"
    /\ LET r == send(OpCommands(op)[step]) IN
       /\ connection_status' = IF op.name \in StatusOps THEN (r = "Ok") ELSE connection_status
       /\ chk' = IF op.name = "send_data" THEN (r = "Ok") ELSE chk
    /\ IF step < Len(OpCommands(op))
       THEN /\ step' = step + 1
            /\ pc' = "send"
            /\ UNCHANGED result
       ELSE /\ pc' = "done"
            /\ result' = IF op.name \in StatusOps
                         THEN (IF ~connection_status' THEN "Err" ELSE "Ok")
                         ELSE IF op.name = "send_data"
                         THEN (IF ~chk' THEN "Err" ELSE "Ok")
                         ELSE "Ok"
            /\ UNCHANGED step
    /\ UNCHANGED <<got_ip, ip, rx, op, send_, expected, endChar, data, last, log, old, xold,
                   x0, lines, faults>>

\* FoundData for any line
FoundData_anyLine(cmd) == TRUE

\* the test that ends the loop of read_network_data (lib.rs 275)
FoundData(cmd) == cmd = "IPD"

\* one iteration of the loop of read_network_data (lib.rs 273-279)
ReadNetworkData ==
    /\ pc = "read"
    /\ \E errAt \in ErrChoices :
       LET rs == read_serial(rx, 0, errAt) IN
       /\ ~rs.blk
       /\ errAt <= rs.reads
       /\ \E checks \in Builds(rs.buffer) :
           LET g == Respond(rs, data, checks) IN
           /\ rx' = g.rest
           /\ last' = g @@ [errAt |-> errAt]
           /\ faults' = IF errAt = 0 THEN faults ELSE faults + 1
           /\ IF g.panic
              THEN /\ pc' = "panic"
                   /\ UNCHANGED <<data, result, log>>
              ELSE /\ data' = g.data
                   /\ log' = Append(log, EvResp(g.response, g.buffer, g.read_ok))
                   /\ IF FoundData(g.response)
                      THEN /\ pc' = "done"
                           /\ result' = g.data_len
                      ELSE /\ pc' = "read"
                           /\ UNCHANGED result
    /\ UNCHANGED <<connection_status, got_ip, ip, op, step, send_, expected, endChar, chk,
                   old, xold, x0, lines>>

\* the operation returns to its caller
Return ==
    /\ pc = "done"
    /\ pc' = "idle"
    /\ UNCHANGED <<connection_status, got_ip, ip, rx, op, step, send_, expected, endChar,
                   chk, data, result, last, log, old, xold, x0, lines, faults>>

\* the line the running operation waits for
Awaited == IF pc = "read" THEN l_IPD ELSE s_OK

\* the modem emits a line while the driver is blocked in rx.read()
Feed ==
    /\ pc \in {"await", "read"}
    /\ lines < MaxLines
    /\ read_serial(rx, 0, 0).blk
    /\ \E l \in (IF faults < MaxFaults THEN Lines ELSE {Awaited}) :
        /\ rx' = rx \o l \o <<CR, LF>>
        /\ faults' = IF l = Awaited THEN faults ELSE faults + 1
    /\ lines' = lines + 1
    /\ UNCHANGED <<connection_status, got_ip, ip, pc, op, step, send_, expected, endChar,
                   chk, data, result, last, log, old, xold, x0>>

\* "+IPD,60:" and 60 payload bytes: a frame longer than the 64-byte line buffer
l_IPD_60 == s_IPD \o COMMA \o Dec(60) \o <<COLON>> \o [j \in 1..60 |-> 97 + (j % 26)]

\* the modem emits that frame while the driver is blocked in rx.read()
FeedFrame ==
    /\ pc \in {"await", "read"}
    /\ lines < MaxLines
    /\ faults < MaxFaults
    /\ read_serial(rx, 0, 0).blk
    /\ rx' = rx \o l_IPD_60 \o <<CR, LF>>
    /\ faults' = faults + 1
    /\ lines' = lines + 1
    /\ UNCHANGED <<connection_status, got_ip, ip, pc, op, step, send_, expected, endChar,
                   chk, data, result, last, log, old, xold, x0>>

Next ==
    \/ \E o \in Ops : Call(o)
    \/ SendCommand
    \/ AwaitResponse
    \/ AfterSend
    \/ ReadNetworkData
    \/ Return
    \/ Feed
    \/ FeedFrame

Spec == Init /\ [][Next]_vars

\* ------------------------------------------- get_response on its own inputs
\* the frame the modem sends for incoming network data: "+IPD,<n>:<payload>"
IpdFrame(n, payload) == s_IPD \o COMMA \o Dec(n) \o <<COLON>> \o payload

\* payload bytes: "h", ":", carriage return, line feed
PayloadBytes == {104, COLON, CR, LF}

Payloads == UNION {[1..k -> PayloadBytes] : k \in 0..MaxPayload}

\* "HELLO", "HELLO WORLD!" (a two-digit length) and the longest payload whose
\* frame fits the 64-byte buffer of get_response
p_HELLO == <<72, 69, 76, 76, 79>>
p_HELLO_WORLD == <<72, 69, 76, 76, 79, 32, 87, 79, 82, 76, 68, 33>>
p_longest == [j \in 1..(BufCap - Len(IpdFrame(BufCap, <<>>))) |-> 97 + (j % 26)]

\* what follows a prefix on a line: nothing, or " x"
Tails == {<<>>, <<32, 120>>}

\* the strings of response_to_str (commands.rs 352-374) and the prefixes of
\* get_response (lib.rs 454-474)
Heads ==
    { s_OK, s_FAIL, s_ready, s_ERROR, s_ALREADY_CONNECTED, s_GT, s_PROMPT, s_Recv,
      s_WIFI_CONNECTED, s_WIFI_GOT_IP, s_WIFI_DISCONNECT, s_busy_s, s_busy_p,
      s_X_CONNECT, s_X_CLOSED, s_IPD, s_STA_CONNECTED, s_DIST_STA_IP,
      s_STA_DISCONNECTED, s_UNKNOWN_COMMAND, l_SEND_OK }

\* text lines without carriage return and zero byte: "A", "OK", "> ", a line
\* that starts with a line feed, and one of 63 bytes
l_63 == [j \in 1..(BufCap - 1) |-> 97 + (j % 26)]
TextLines == {<<65>>, s_OK, s_PROMPT, <<LF, 66>>, l_63}

\* a text line as the modem sends it, after an empty line (blank) or not
Texts == [text : TextLines, blank : BOOLEAN]

\* lines that start with "+IPD": without a colon, with the declared length
\* 300 ("+IPD,300:"), and with a declared length that reaches past the 64-byte
\* buffer ("+IPD,60:hi")
IpdLines ==
    { s_IPD, s_IPD \o COMMA \o Dec(2), s_IPD \o COMMA \o Dec(300) \o <<COLON>>,
      s_IPD \o COMMA \o Dec(60) \o <<COLON, 104, 105>> }

\* the inputs: a frame with its declared length and payload, a text line, up
\* to MaxText text lines one after the other, or a line that starts with "+IPD"
FrameInputs ==
    {Op("frame", <<Len(p), p>>) : p \in Payloads \cup {p_HELLO, p_HELLO_WORLD, p_longest}}
    \cup {Op("line", <<h \o t>>) : h \in Heads, t \in Tails}
    \cup {Op("text", <<ts>>) : ts \in UNION {[1..k -> Texts] : k \in 1..MaxText}}
    \cup {Op("ipd", <<l>>) : l \in IpdLines}

\* the bytes of the text lines ts from number i on
RECURSIVE TextStream(_, _)
TextStream(ts, i) ==
    IF i > Len(ts) THEN <<>>
    ELSE (IF ts[i].blank THEN <<CR, LF>> ELSE <<>>) \o ts[i].text \o <<CR, LF>>
         \o TextStream(ts, i + 1)

\* the bytes the modem puts on the wire for an input
StreamOf(o) ==
    IF o.name = "text" THEN TextStream(o.args[1], 1)
    ELSE (IF o.name = "frame" THEN IpdFrame(o.args[1], o.args[2]) ELSE o.args[1])
         \o <<CR, LF>>

\* a driver fresh from new, the bytes of one input pending, and a caller about
\* to call get_response with a zeroed 64-byte buffer (as lib.rs 376-377)
FrameInit ==
    /\ connection_status = FALSE
    /\ got_ip = FALSE
    /\ ip = <<0, 0, 0, 0>>
    /\ op \in FrameInputs
    /\ rx = StreamOf(op)
    /\ pc = "frame"
    /\ step = 0
    /\ send_ = <<>>
    /\ expected = "UNKNOWN_COMMAND"
    /\ endChar = FALSE
    /\ chk = FALSE
    /\ data = Zeros(BufCap)
    /\ result = "none"
    /\ last = NoCall
    /\ log = <<>>
    /\ old = <<FALSE, FALSE, <<0, 0, 0, 0>>>>
    /\ xold = <<FALSE, FALSE, <<0, 0, 0, 0>>>>
    /\ x0 = 0
    /\ lines = 0
    /\ faults = 0

\* one call of get_response (lib.rs 406-478), the first or a further one
GetResponse ==
    /\ pc \in {"frame", "framed"}
    /\ LET rs == read_serial(rx, 0, 0) IN
       /\ ~rs.blk
       /\ \E checks \in Builds(rs.buffer) :
           LET g == Respond(rs, data, checks) IN
           /\ rx' = g.rest
           /\ last' = g @@ [errAt |-> 0]
           /\ data' = g.data
           /\ log' = Append(log, EvResp(g.response, g.buffer, g.read_ok))
           /\ pc' = IF g.panic THEN "panic" ELSE "framed"
    /\ UNCHANGED <<connection_status, got_ip, ip, op, step, send_, expected, endChar, chk,
                   result, old, xold, x0, lines, faults>>

FrameNext == GetResponse

FrameSpec == FrameInit /\ [][FrameNext]_vars

\* ------------------------------------------------ send on every command
\* the members of AT_response (commands.rs 306-325)
AT_response ==
    { "UNKNOWN_COMMAND", "OK", "FAIL", "ready", "ERROR", "ALREADY_CONNECTED",
      "ready_to_send", "WIFI_CONNECTED", "WIFI_GOT_IP", "WIFI_DISCONNECT", "busy_s",
      "busy_p", "X_CONNECT", "X_CLOSED", "IPD", "STA_CONNECTED", "DIST_STA_IP",
      "STA_DISCONNECTED" }

\* response_to_str with "READY" for ready
response_to_str_upper(response) ==
    CASE response = "OK" -> s_OK
      [] response = "FAIL" -> s_FAIL
      [] response = "ready" -> <<82, 69, 65, 68, 89>>
      [] response = "ERROR" -> s_ERROR
      [] response = "ALREADY_CONNECTED" -> s_ALREADY_CONNECTED
      [] response = "ready_to_send" -> s_GT
      [] response = "WIFI_CONNECTED" -> s_WIFI_CONNECTED
      [] response = "WIFI_GOT_IP" -> s_WIFI_GOT_IP
      [] response = "WIFI_DISCONNECT" -> s_WIFI_DISCONNECT
      [] response = "busy_s" -> s_busy_s
      [] response = "busy_p" -> s_busy_p
      [] response = "X_CONNECT" -> s_X_CONNECT
      [] response = "X_CLOSED" -> s_X_CLOSED
      [] response = "IPD" -> s_IPD
      [] response = "STA_CONNECTED" -> s_STA_CONNECTED
      [] response = "DIST_STA_IP" -> s_DIST_STA_IP
      [] response = "STA_DISCONNECTED" -> s_STA_DISCONNECTED
      [] response = "UNKNOWN_COMMAND" -> s_UNKNOWN_COMMAND
      [] OTHER -> s_UNREACHABLE

\* response_to_str (commands.rs 352-374)
response_to_str(response) ==
    CASE response = "OK" -> s_OK
      [] response = "FAIL" -> s_FAIL
      [] response = "ready" -> s_ready
      [] response = "ERROR" -> s_ERROR
      [] response = "ALREADY_CONNECTED" -> s_ALREADY_CONNECTED
      [] response = "ready_to_send" -> s_GT
      [] response = "WIFI_CONNECTED" -> s_WIFI_CONNECTED
      [] response = "WIFI_GOT_IP" -> s_WIFI_GOT_IP
      [] response = "WIFI_DISCONNECT" -> s_WIFI_DISCONNECT
      [] response = "busy_s" -> s_busy_s
      [] response = "busy_p" -> s_busy_p
      [] response = "X_CONNECT" -> s_X_CONNECT
      [] response = "X_CLOSED" -> s_X_CLOSED
      [] response = "IPD" -> s_IPD
      [] response = "STA_CONNECTED" -> s_STA_CONNECTED
      [] response = "DIST_STA_IP" -> s_DIST_STA_IP
      [] response = "STA_DISCONNECTED" -> s_STA_DISCONNECTED
      [] response = "UNKNOWN_COMMAND" -> s_UNKNOWN_COMMAND
      [] OTHER -> s_UNREACHABLE

\* str_to_response (commands.rs 328-349): a match on the whole slice
str_to_response(response) ==
    CASE response = s_OK -> "OK"
      [] response = s_FAIL -> "FAIL"
      [] response = s_ready -> "ready"
      [] response = s_ERROR -> "ERROR"
      [] response = s_ALREADY_CONNECTED -> "ALREADY_CONNECTED"
      [] response = s_GT -> "ready_to_send"
      [] response = s_WIFI_CONNECTED -> "WIFI_CONNECTED"
      [] response = s_WIFI_GOT_IP -> "WIFI_GOT_IP"
      [] response = s_WIFI_DISCONNECT -> "WIFI_DISCONNECT"
      [] response = s_busy_s -> "busy_s"
      [] response = s_busy_p -> "busy_p"
      [] response = s_X_CONNECT -> "X_CONNECT"
      [] response = s_X_CLOSED -> "X_CLOSED"
      [] response = s_IPD -> "IPD"
      [] response = s_STA_CONNECTED -> "STA_CONNECTED"
      [] response = s_DIST_STA_IP -> "DIST_STA_IP"
      [] response = s_STA_DISCONNECTED -> "STA_DISCONNECTED"
      [] OTHER -> "UNKNOWN_COMMAND"

\* text parameters: "", "ap", "ssid" and 25 bytes; "", "pwd", 25 and 26 bytes
\* (AT+CWJAP="","" is 14 bytes: 25 and 25 fill cmd_buffer, 25 and 26 overflow it)
t_long == [j \in 1..((BufCap - Len(s_AT_CWJAP) - 5) \div 2) |-> 97 + (j % 26)]
Ssids == {<<>>, t_ssid, <<115, 115, 105, 100>>, t_long}
Pwds == {<<>>, <<112, 119, 100>>, t_long, Append(t_long, 122)}

\* variants of AT_commands: those send_command encodes, with parameters, and
\* five of those it does not (commands.rs AT_commands)
Commands ==
    { Cmd("AT", <<>>), Cmd("ATE", <<TRUE>>), Cmd("ATE", <<FALSE>>), Cmd("RST", <<>>),
      Cmd("CWMODE", <<1>>), Cmd("CIFSR", <<>>), Cmd("CIPMUX", <<0>>), Cmd("CIPMUX", <<1>>),
      Cmd("CIPSERVER", <<1>>), Cmd("CIPSERVER_EXT", <<1, Port>>),
      Cmd("CIPSTART", <<<<84, 67, 80>>, <<49, 46, 50, 46, 51, 46, 52>>, Port>>),
      Cmd("CIPSTART_EXT", <<s_UDP, s_ANYADDR, Port, Port, 2>>),
      Cmd("CIPSEND", <<Len(t_data)>>), Cmd("SEND", <<t_data>>),
      Cmd("NO_COMMAND", <<>>), Cmd("GMR", <<>>), Cmd("CWQAP", <<>>), Cmd("CIPCLOSE", <<>>),
      Cmd("PING", <<>>) }
    \cup {Cmd("CWJAP", <<s, p>>) : s \in Ssids, p \in Pwds}

\* the modem emits the string of a response kind as a line while the driver is
\* blocked in rx.read(); a kind other than the expected one counts as a fault
Reply ==
    /\ pc = "await"
    /\ lines < MaxLines
    /\ read_serial(rx, 0, 0).blk
    /\ \E k \in (IF faults < MaxFaults THEN AT_response ELSE {expected}) :
        /\ rx' = rx \o response_to_str(k) \o <<CR, LF>>
        /\ faults' = IF k = expected THEN faults ELSE faults + 1
    /\ lines' = lines + 1
    /\ UNCHANGED <<connection_status, got_ip, ip, pc, op, step, send_, expected, endChar,
                   chk, data, result, last, log, old, xold, x0>>

EncNext ==
    \/ \E c \in Commands : Call(Op("send", <<c>>))
    \/ SendCommand
    \/ AwaitResponse
    \/ AfterSend
    \/ Return
    \/ Reply

EncSpec == Init /\ [][EncNext]_vars

\* ------------------------------- exchanges on a transport whose reads succeed
\* operations of one and of two exchanges, with the expected kinds ready and OK
LiveOps ==
    { Op("send", <<Cmd("RST", <<>>)>>), Op("get_IP", <<>>), Op("send_data", <<t_data>>) }

\* one iteration of the loop of send_command in which every rx.read() call
\* returned a byte
AwaitLine == AwaitResponse /\ last'.errAt = 0

\* the modem emits the line of the expected kind while the driver is blocked
\* in rx.read(), once in an exchange: no line of that kind was read in it yet
Answer ==
    /\ pc = "await"
    /\ read_serial(rx, 0, 0).blk
    /\ \A i \in (x0 + 1)..Len(log) : ~(log[i].ev = "resp" /\ log[i].kind = expected)
    /\ rx' = rx \o response_to_str(expected) \o <<CR, LF>>
    /\ UNCHANGED <<connection_status, got_ip, ip, pc, op, step, send_, expected, endChar,
                   chk, data, result, last, log, old, xold, x0, lines, faults>>

LiveNext ==
    \/ \E o \in LiveOps : Call(o)
    \/ SendCommand
    \/ AwaitLine
    \/ AfterSend
    \/ Return
    \/ Feed
    \/ Answer

\* the driver runs on (send_command is a sequential loop, lib.rs 294-404) and
\* the line of the expected kind is on the stream after finitely many others
Fairness ==
    /\ WF_vars(SendCommand)
    /\ WF_vars(AwaitLine)
    /\ WF_vars(AfterSend)
    /\ WF_vars(Answer)

LiveSpec == Init /\ [][LiveNext]_vars /\ Fairness

\* ============================================================== properties
\* the log of the latest exchange: its first entry is the first write
XLog == SubSeq(log, x0 + 1, Len(log))

InExchange == pc \in {"await", "sent"}

Resps(l) == SelectSeq(l, LAMBDA e : e.ev = "resp")
Writes(l) == SelectSeq(l, LAMBDA e : e.ev = "write")
Delays(l) == SelectSeq(l, LAMBDA e : e.ev = "delay")

\* a write entry of the command of the exchange: the bytes the transport took
\* are the command's bytes (all of them when the call succeeded)
IsCommandWrite(e) ==
    /\ e.ev = "write"
    /\ e.bytes = Prefix(Wire(send_, endChar), Len(e.bytes))
    /\ e.ok => e.bytes = Wire(send_, endChar)

LinkKinds == {"WIFI_CONNECTED", "WIFI_GOT_IP", "WIFI_DISCONNECT"}

\* C1: when the first line read in an exchange is classified ALREADY
\* CONNECTED, send_command has returned and the exchange consists of the one
\* initial write and that line: no retransmission, no delay, whatever the
\* expected kind.
C1_AlreadyConnectedEnds ==
    (InExchange /\ Len(XLog) >= 2 /\ XLog[2].kind = "ALREADY_CONNECTED")
        => /\ pc = "sent"
           /\ Len(XLog) = 2
           /\ IsCommandWrite(XLog[1])
           /\ Delays(XLog) = <<>>

C1_Witness ==
    /\ pc = "sent"
    /\ expected = "ready"
    /\ Len(XLog) = 2
    /\ XLog[2].kind = "ALREADY_CONNECTED"

\* C2: in an exchange expecting OK whose lines are exactly "ERROR" then "OK",
\* write_serial was called exactly twice, each time with the command's bytes
\* and terminator, send_command has returned, and Device State is what it was
\* when the exchange started.
C2_ErrorThenOk ==
    (InExchange /\ expected = "OK" /\ Len(Resps(XLog)) = 2
        /\ Resps(XLog)[1].bytes = l_ERROR /\ Resps(XLog)[2].bytes = s_OK)
        => /\ pc = "sent"
           /\ Len(Writes(XLog)) = 2
           /\ \A i \in 1..2 : IsCommandWrite(Writes(XLog)[i])
           /\ XLog[Len(XLog)].ev = "resp"
           /\ DeviceState = xold

C2_Witness ==
    /\ pc = "sent"
    /\ expected = "OK"
    /\ Len(Resps(XLog)) = 2
    /\ Resps(XLog)[1].bytes = l_ERROR
    /\ Resps(XLog)[2].bytes = s_OK
    /\ Len(Writes(XLog)) = 2
    /\ Writes(XLog)[2].bytes = Wire(send_, endChar)
    /\ connection_status

\* C3: in an exchange, the entry that follows a line starting with "ERROR"
\* that did not end the exchange is the retransmission, not the delay.
C3_ErrorResendsAtOnce ==
    InExchange =>
        \A i \in 1..Len(XLog) :
            (XLog[i].ev = "resp" /\ starts_with(XLog[i].bytes, l_ERROR) /\ i < Len(XLog))
                => XLog[i + 1].ev = "write"

\* C4: a line starting with "WIFI CONNECTED" read by an exchange sets
\* connection_status, one starting with "WIFI GOT IP" sets got_ip, one starting
\* with "WIFI DISCONNECT" clears both; the exchange stays awaiting and the line
\* is followed by no delay and no write.
C4_LinkNotifications ==
    [][ (pc = "await" /\ Len(log') > Len(log)) =>
            LET e == log'[Len(log) + 1]
                quiet == pc' = "await" /\ log' = Append(log, e) /\ ip' = ip
            IN  /\ starts_with(e.bytes, s_WIFI_CONNECTED) =>
                    (connection_status' = TRUE /\ got_ip' = got_ip /\ quiet)
                /\ starts_with(e.bytes, s_WIFI_GOT_IP) =>
                    (got_ip' = TRUE /\ connection_status' = connection_status /\ quiet)
                /\ starts_with(e.bytes, s_WIFI_DISCONNECT) =>
                    (connection_status' = FALSE /\ got_ip' = FALSE /\ quiet) ]_vars

C4_Witness ==
    /\ pc = "await"
    /\ xold[1] = TRUE /\ xold[2] = TRUE
    /\ Len(XLog) = 2
    /\ XLog[2].bytes = s_WIFI_DISCONNECT
    /\ connection_status = FALSE /\ got_ip = FALSE

\* C5: in an exchange, a line classified as the expected kind or as ALREADY
\* CONNECTED is the last entry and send_command has returned; after any
\* number of other lines the exchange is awaiting; send_command has returned
\* only with such a line as the last entry.
Ends(kind) == kind \in {expected, "ALREADY_CONNECTED"}

C5_OnlyMatchEnds ==
    InExchange =>
        /\ \A i \in 1..Len(XLog) :
              XLog[i].ev = "resp" => (Ends(XLog[i].kind) <=> (i = Len(XLog) /\ pc = "sent"))
        /\ pc = "sent" => (XLog # <<>> /\ XLog[Len(XLog)].ev = "resp")

C5_Witness ==
    /\ pc = "await"
    /\ Len(Resps(XLog)) >= 3
    /\ Len(Writes(XLog)) >= 4

\* C6: in an exchange, every line whose kind is neither the expected one,
\* ERROR, ALREADY CONNECTED nor a link notification (and that does not start
\* with "ERROR") is followed by exactly one delay of 200 ms and then exactly
\* one write of the command's bytes, and the exchange goes on awaiting.
TimedRetry(e) ==
    /\ e.ev = "resp"
    /\ ~Ends(e.kind)
    /\ e.kind \notin LinkKinds \cup {"ERROR"}
    /\ ~starts_with(e.bytes, l_ERROR)

C6_DelayThenResend ==
    InExchange =>
        \A i \in 1..Len(XLog) :
            TimedRetry(XLog[i]) =>
                /\ i + 2 <= Len(XLog)
                /\ XLog[i + 1] = EvDelay(200)
                /\ IsCommandWrite(XLog[i + 2])
                /\ i + 2 = Len(XLog) => pc = "await"
                /\ i + 2 < Len(XLog) => XLog[i + 3].ev = "resp"

C6_Witness ==
    /\ pc = "await"
    /\ expected = "OK"
    /\ Len(XLog) = 4
    /\ XLog[2].bytes = s_FAIL
    /\ XLog[3].ev = "delay"
    /\ XLog[4].ev = "write" /\ XLog[4].bytes = Wire(send_, endChar)

\* C7 as stated: an exchange of the sentinel command never returns.
C7_SentinelNeverReturns ==
    (send_ = s_NO_COMMAND /\ expected = "UNKNOWN_COMMAND") => pc # "sent"

\* C7 amended: an exchange of the sentinel command returns exactly with the
\* first line classified UNKNOWN_COMMAND or ALREADY_CONNECTED; lines of every
\* other kind keep it retrying.
C7_SentinelEndsOnUnrecognized ==
    (InExchange /\ send_ = s_NO_COMMAND) =>
        \A i \in 1..Len(XLog) :
            XLog[i].ev = "resp" =>
                ((XLog[i].kind \in {"UNKNOWN_COMMAND", "ALREADY_CONNECTED"})
                    <=> (i = Len(XLog) /\ pc = "sent"))

C7_Witness ==
    /\ pc = "sent"
    /\ send_ = s_NO_COMMAND
    /\ Len(Resps(XLog)) >= 2
    /\ Resps(XLog)[1].kind = "OK"
    /\ XLog[Len(XLog)].kind = "UNKNOWN_COMMAND"

NoLinkLine == \A i \in 1..Len(log) : log[i].ev = "resp" => log[i].kind \notin LinkKinds

\* C8 as stated: an operation that read no link line returns with Device
\* State as it was at the call.
C8_OnlyEngineWrites ==
    (pc = "done" /\ NoLinkLine) => DeviceState = old

\* C8 amended: an operation that read no link line returns with got_ip and ip
\* as they were at the call, and with connection_status true for init, join_AP,
\* get_IP, tcp_server and udp_server, as it was at the call for the others.
C8_StatusSetByOperations ==
    (pc = "done" /\ NoLinkLine) =>
        /\ got_ip = old[2]
        /\ ip = old[3]
        /\ connection_status = IF op.name \in {"init", "join_AP", "get_IP", "tcp_server",
                                               "udp_server"}
                               THEN TRUE ELSE old[1]

C8_Witness ==
    /\ pc = "done"
    /\ NoLinkLine
    /\ op.name = "join_AP"
    /\ old[1] = FALSE /\ old[2] = TRUE
    /\ connection_status = TRUE /\ got_ip = TRUE

\* C9: a get_response call of an exchange whose read_serial failed in the
\* line is followed by no delay and no write and does not end the exchange.
C9_ReadErrorKeepsWaiting ==
    InExchange =>
        \A i \in 1..Len(XLog) :
            (XLog[i].ev = "resp" /\ ~XLog[i].ok) =>
                /\ i = Len(XLog) => pc = "await"
                /\ i < Len(XLog) => XLog[i + 1].ev = "resp"

\* C10: when read_serial met a carriage return followed by another byte than
\* a line feed, the line went on to a CR LF pair or to the capacity, and that
\* byte is in the line.
C10_BareCRKeepsLine ==
    last.parse_missed_byte =>
        /\ last.stop \in {"crlf", "full"}
        /\ \E i \in 1..Len(last.buffer) : last.buffer[i] = last.missed_byte

\* ---------------------------------------------------------------- FrameSpec
\* C11: get_response on the frame "+IPD,<n>:<payload>" returns IPD and the
\* length n and leaves the n payload bytes, in order, at the start of the
\* caller's buffer, whatever the payload bytes are (carriage return and line
\* feed included).
C11_PayloadVerbatim ==
    (op.name = "frame" /\ pc # "frame") =>
        /\ pc = "framed"
        /\ last.response = "IPD"
        /\ last.data_len = op.args[1]
        /\ Prefix(data, op.args[1]) = op.args[2]

\* C12: get_response on a frame "+IPD,<n>:<payload>" of at most 64 bytes whose
\* n payload bytes hold no carriage return returns IPD and the length n, and the
\* first n bytes of the caller's buffer are the payload in order.
C12_FrameDelivered ==
    ( /\ op.name = "frame"
      /\ pc # "frame"
      /\ Len(IpdFrame(op.args[1], op.args[2])) <= BufCap
      /\ \A i \in 1..Len(op.args[2]) : op.args[2][i] # CR ) =>
        /\ pc = "framed"
        /\ last.response = "IPD"
        /\ last.data_len = op.args[1]
        /\ Prefix(data, op.args[1]) = op.args[2]

\* "+IPD,5:HELLO" was read: length 5 and the bytes "HELLO"
C12_Witness ==
    /\ pc = "framed"
    /\ op = Op("frame", <<5, <<72, 69, 76, 76, 79>>>>)
    /\ last.buffer = <<43, 73, 80, 68, 44, 53, 58, 72, 69, 76, 76, 79>>
    /\ last.response = "IPD"
    /\ last.data_len = 5
    /\ Prefix(data, 5) = <<72, 69, 76, 76, 79>>

\* the prefixes the exchange engine is to recognise, each with its kind
PrefixKinds ==
    << <<s_OK, "OK">>, <<s_FAIL, "FAIL">>, <<s_ready, "ready">>, <<s_ERROR, "ERROR">>,
       <<s_ALREADY_CONNECTED, "ALREADY_CONNECTED">>, <<s_PROMPT, "ready_to_send">>,
       <<s_WIFI_CONNECTED, "WIFI_CONNECTED">>, <<s_WIFI_GOT_IP, "WIFI_GOT_IP">>,
       <<s_WIFI_DISCONNECT, "WIFI_DISCONNECT">>, <<s_busy_s, "busy_s">>,
       <<s_busy_p, "busy_p">>, <<s_X_CONNECT, "X_CONNECT">>, <<s_X_CLOSED, "X_CLOSED">>,
       <<s_IPD, "IPD">>, <<s_STA_CONNECTED, "STA_CONNECTED">>,
       <<s_DIST_STA_IP, "DIST_STA_IP">>, <<s_STA_DISCONNECTED, "STA_DISCONNECTED">> >>

\* C13: a get_response call that framed a line starting with one of the 17
\* prefixes returns the kind of that prefix.
C13_PrefixTable ==
    pc \in {"framed", "panic"} =>
        \A i \in 1..Len(PrefixKinds) :
            starts_with(last.buffer, PrefixKinds[i][1]) =>
                pc = "framed" /\ last.response = PrefixKinds[i][2]

\* C24: get_response completes without a runtime fault for every line buffer
\* that starts with "+IPD": the scan for ':' stops inside the buffer, the 8-bit
\* length does not overflow, and the copy stays inside both buffers.
C24_IpdNeverFaults ==
    (pc \in {"framed", "panic"} /\ starts_with(last.buffer, s_IPD)) => pc = "framed"

\* --------------------------------------------------------------------- Spec
\* a line that starts with none of the 17 prefixes
Unlisted(b) == \A i \in 1..Len(PrefixKinds) : ~starts_with(b, PrefixKinds[i][1])

\* a step of the exchange loop that read and classified a line
ClassifiedInExchange == pc = "await" /\ Len(rx') < Len(rx) /\ pc' # "panic"

Command == OpCommands(op)[step]

IsPrefixOf(a, b) == Len(a) <= Len(b) /\ a = Prefix(b, Len(a))

\* what a transmission of the command c is to consist of
Transmission(c) ==
    IF c.name = "SEND" THEN c.args[1] ELSE Encode(c).send_ \o <<13, 10>>

\* C15: every write_serial call of an exchange, the first and each one after a
\* line, hands the transport the wire text followed by CR LF, and for SEND(data)
\* the bytes of data and nothing more (a call the transport fails stops inside
\* these bytes); the append-terminator flag is false for SEND only.
C15_TerminatorButSend ==
    InExchange =>
        /\ endChar = (Command.name # "SEND")
        /\ \A i \in 1..Len(XLog) :
            XLog[i].ev = "write" =>
                /\ XLog[i].ok => XLog[i].bytes = Transmission(Command)
                /\ ~XLog[i].ok => /\ IsPrefixOf(XLog[i].bytes, Transmission(Command))
                                  /\ XLog[i].bytes # Transmission(Command)

\* SEND("hi") was written, answered by a line that is not the expected one, and
\* written again: both transmissions are the two bytes "hi"
C15_Witness ==
    /\ pc = "await"
    /\ Command = Cmd("SEND", <<<<104, 105>>>>)
    /\ Len(Writes(XLog)) = 2
    /\ Writes(XLog)[1].ok /\ Writes(XLog)[1].bytes = <<104, 105>>
    /\ Writes(XLog)[2].ok /\ Writes(XLog)[2].bytes = <<104, 105>>

\* the variants send_command encodes
AllowList ==
    { "AT", "ATE", "RST", "CWJAP", "CWMODE", "CIFSR", "CIPMUX", "CIPSERVER",
      "CIPSERVER_EXT", "CIPSTART", "CIPSTART_EXT", "CIPSEND", "SEND" }

\* "commands::AT_commands::NO_COMMAND"
SentinelText ==
    <<99, 111, 109, 109, 97, 110, 100, 115, 58, 58, 65, 84, 95, 99, 111, 109, 109, 97, 110,
      100, 115, 58, 58, 78, 79, 95, 67, 79, 77, 77, 65, 78, 68>>

\* send was called with a variant outside the allow-list and has encoded it
SentinelSent == op.name = "send" /\ Command.name \notin AllowList /\ pc # "send"

\* C16: send on a variant outside the allow-list encodes it, without an error,
\* to the sentinel text with the terminator flag true and the expected kind
\* UNKNOWN_COMMAND; the first thing the operation does is to write the sentinel
\* bytes and CR LF to the transport, and send returns Ok.
C16_SentinelEncoding ==
    SentinelSent =>
        /\ send_ = SentinelText
        /\ endChar = TRUE
        /\ expected = "UNKNOWN_COMMAND"
        /\ Len(log) >= 1
        /\ log[1].ev = "write"
        /\ IsPrefixOf(log[1].bytes, SentinelText \o <<13, 10>>)
        /\ log[1].ok => log[1].bytes = SentinelText \o <<13, 10>>
        /\ pc \in {"done", "idle"} => result = "Ok"

\* send(PING) has written the sentinel and CR LF and waits for a line
C16_Witness ==
    /\ pc = "await"
    /\ op = Op("send", <<Cmd("PING", <<>>)>>)
    /\ send_ = SentinelText
    /\ log = <<EvWrite(SentinelText \o <<13, 10>>, TRUE)>>

\* free of the quote, the comma and the line terminator bytes
PlainText(t) == \A i \in 1..Len(t) : t[i] \notin {34, 44, 13, 10}

\* AT+CWJAP="<ssid>","<pwd>"
JoinText(ssid, pwd) ==
    <<65, 84, 43, 67, 87, 74, 65, 80, 61, 34>> \o ssid \o <<34, 44, 34>> \o pwd \o <<34>>

\* C17: once send has encoded CWJAP(ssid, pwd), for plain parameters whose
\* rendering fits 64 bytes, the wire text is AT+CWJAP="<ssid>","<pwd>", the
\* terminator flag is true and the expected kind is OK (and the encoding did
\* not fail: the text was written).
C17_JoinEncoding ==
    ( /\ op.name = "send"
      /\ pc # "send"
      /\ Command.name = "CWJAP"
      /\ PlainText(Command.args[1]) /\ PlainText(Command.args[2])
      /\ Len(JoinText(Command.args[1], Command.args[2])) <= 64 ) =>
        /\ send_ = JoinText(Command.args[1], Command.args[2])
        /\ endChar = TRUE
        /\ expected = "OK"
        /\ Len(log) >= 1 /\ log[1].ev = "write"
        /\ log[1].ok => log[1].bytes = send_ \o <<13, 10>>

\* CWJAP("ssid", "pwd") was encoded and written: AT+CWJAP="ssid","pwd" CR LF
C17_Witness ==
    /\ pc = "await"
    /\ op = Op("send", <<Cmd("CWJAP", <<<<115, 115, 105, 100>>, <<112, 119, 100>>>>)>>)
    /\ send_ = <<65, 84, 43, 67, 87, 74, 65, 80, 61, 34, 115, 115, 105, 100, 34, 44, 34,
                 112, 119, 100, 34>>
    /\ endChar = TRUE
    /\ expected = "OK"
    /\ log = <<EvWrite(send_ \o <<13, 10>>, TRUE)>>

\* C18: when send has encoded a command of the allow-list with expected kind k
\* and get_response has framed the line response_to_str(k), get_response
\* returned k, and str_to_response maps that line to k as well.
C18_RoundTrip ==
    ( /\ op.name = "send"
      /\ pc # "send"
      /\ Command.name \in AllowList
      /\ last # NoCall
      /\ last.buffer = response_to_str(expected) ) =>
        /\ pc # "panic"
        /\ last.response = expected
        /\ str_to_response(last.buffer) = expected

\* RST expects ready: the modem sent "ready", get_response returned ready and
\* ended the exchange
C18_Witness ==
    /\ pc = "sent"
    /\ op = Op("send", <<Cmd("RST", <<>>)>>)
    /\ expected = "ready"
    /\ last.buffer = <<114, 101, 97, 100, 121>>
    /\ last.response = "ready"
    /\ str_to_response(last.buffer) = "ready"

\* the transmissions of the multi-step operations, in order, for the
\* parameters ssid "ap", password "pw", port 80 and data "hi":
\* init: ATE0, AT
\* join_AP: AT+CWJAP="ap","pw", AT+CIFSR
\* tcp_server: AT+CWMODE=1, AT+CIPMUX=1, AT+CIPSERVER=1,80
\* udp_server: AT+CWMODE=1, AT+CIPMUX=0, AT+CIPSTART="UDP","0.0.0.0",80,80,2,
\*             AT+CIPSEND=4
\* send_data: AT+CIPSEND=2, then hi (without CR LF)
Order(name) ==
    CASE name = "init" ->
            << <<65, 84, 69, 48, 13, 10>>, <<65, 84, 13, 10>> >>
      [] name = "join_AP" ->
            << <<65, 84, 43, 67, 87, 74, 65, 80, 61, 34, 97, 112, 34, 44, 34, 112, 119, 34,
                 13, 10>>,
               <<65, 84, 43, 67, 73, 70, 83, 82, 13, 10>> >>
      [] name = "tcp_server" ->
            << <<65, 84, 43, 67, 87, 77, 79, 68, 69, 61, 49, 13, 10>>,
               <<65, 84, 43, 67, 73, 80, 77, 85, 88, 61, 49, 13, 10>>,
               <<65, 84, 43, 67, 73, 80, 83, 69, 82, 86, 69, 82, 61, 49, 44, 56, 48, 13, 10>> >>
      [] name = "udp_server" ->
            << <<65, 84, 43, 67, 87, 77, 79, 68, 69, 61, 49, 13, 10>>,
               <<65, 84, 43, 67, 73, 80, 77, 85, 88, 61, 48, 13, 10>>,
               <<65, 84, 43, 67, 73, 80, 83, 84, 65, 82, 84, 61, 34, 85, 68, 80, 34, 44, 34,
                 48, 46, 48, 46, 48, 46, 48, 34, 44, 56, 48, 44, 56, 48, 44, 50, 13, 10>>,
               <<65, 84, 43, 67, 73, 80, 83, 69, 78, 68, 61, 52, 13, 10>> >>
      [] name = "send_data" ->
            << <<65, 84, 43, 67, 73, 80, 83, 69, 78, 68, 61, 50, 13, 10>>, <<104, 105>> >>

MultiStep == {"init", "join_AP", "tcp_server", "udp_server", "send_data"}

\* a get_response call that made its exchange Satisfied (every command of
\* the multi-step operations expects OK)
Satisfies(e) == e.ev = "resp" /\ e.kind \in {"OK", "ALREADY_CONNECTED"}

\* the exchanges Satisfied before entry i of the log
SatisfiedBefore(i) == Cardinality({j \in 1..(i - 1) : Satisfies(log[j])})

\* C19: in a multi-step operation every write to the transport carries the
\* command whose turn it is: command k of the fixed order is written only
\* after k - 1 exchanges were Satisfied and until the k-th is; a Satisfied
\* exchange is followed at once by the first write of the next command, and
\* the operation returns when every command's exchange was Satisfied.
C19_FixedOrder ==
    op.name \in MultiStep =>
        /\ \A i \in 1..Len(log) :
            log[i].ev = "write" =>
                LET k == SatisfiedBefore(i) + 1 IN
                /\ k <= Len(Order(op.name))
                /\ IsPrefixOf(log[i].bytes, Order(op.name)[k])
                /\ log[i].ok => log[i].bytes = Order(op.name)[k]
        /\ \A i \in 1..Len(log) :
            (i = 1 \/ (Satisfies(log[i - 1]) /\ SatisfiedBefore(i) < Len(Order(op.name))))
                => log[i].ev = "write"
        /\ pc \in {"done", "idle"} => SatisfiedBefore(Len(log) + 1) = Len(Order(op.name))
        /\ pc \notin {"done", "idle"} => SatisfiedBefore(Len(log) + 1) \in {step - 1, step}

\* udp_server has returned after its four commands were written once each, in
\* order, each answered by OK
C19_Witness ==
    /\ pc = "done"
    /\ op.name = "udp_server"
    /\ Len(Writes(log)) = 4
    /\ \A k \in 1..4 : Writes(log)[k].bytes = Order("udp_server")[k]
    /\ Len(Resps(log)) = 4
    /\ \A k \in 1..4 : log[2 * k - 1].ev = "write" /\ log[2 * k].ev = "resp"

\* the decimal number between "+IPD," and the colon of a line
RECURSIVE Horner(_, _, _)
Horner(b, i, acc) ==
    IF i >= Len(b) \/ At(b, i) = 58 THEN acc ELSE Horner(b, i + 1, 10 * acc + At(b, i) - 48)

Declared(b) == Horner(b, 5, 0)

\* C20: read_network_data writes nothing, calls no delay and leaves Device
\* State as it was; it goes on reading after every line that is not IPD
\* (WIFI CONNECTED, WIFI DISCONNECT and WIFI GOT IP included) and returns at the
\* first line classified IPD, with the length declared in that frame.
C20_ReadUntilIPD ==
    op.name = "read_network_data" =>
        /\ \A i \in 1..Len(log) : log[i].ev = "resp"
        /\ DeviceState = old
        /\ \A i \in 1..(Len(log) - 1) : log[i].kind # "IPD"
        /\ pc = "read" => \A i \in 1..Len(log) : log[i].kind # "IPD"
        /\ pc \in {"done", "idle"} =>
            /\ Len(log) >= 1
            /\ log[Len(log)].kind = "IPD"
            /\ result = last.data_len
            /\ result = Declared(log[Len(log)].bytes)

\* with connection_status true, read_network_data read "WIFI DISCONNECT" and
\* then "+IPD,2:hi": it returned 2 with "hi" in the caller's buffer, and
\* connection_status is still true
C20_Witness ==
    /\ pc = "done"
    /\ op.name = "read_network_data"
    /\ Len(log) = 2
    /\ log[1].kind = "WIFI_DISCONNECT" /\ log[1].bytes = s_WIFI_DISCONNECT
    /\ log[2].kind = "IPD" /\ log[2].bytes = l_IPD
    /\ result = 2
    /\ Prefix(data, 2) = <<104, 105>>
    /\ connection_status = TRUE

\* ---------------------------------------------------------------- FrameSpec
\* C21: on a stream of text lines of 1 to 63 bytes without carriage return and
\* zero byte, each ended by CR LF and some preceded by an empty line, call i of
\* get_response frames the bytes of line i and nothing else, and when the
\* stream is used up every line was framed and no byte is left.
C21_LinesInOrder ==
    op.name = "text" =>
        /\ pc # "panic"
        /\ Len(log) <= Len(op.args[1])
        /\ \A i \in 1..Len(log) :
            /\ log[i].ev = "resp"
            /\ log[i].ok
            /\ log[i].bytes = op.args[1][i].text
        /\ rx = TextStream(op.args[1], Len(log) + 1)
        /\ read_serial(rx, 0, 0).blk => (Len(log) = Len(op.args[1]) /\ rx = <<>>)

\* an empty line, "OK", and the 63-byte line were sent; two calls framed "OK"
\* and the 63-byte line
C21_Witness ==
    /\ pc = "framed"
    /\ op = Op("text", << <<[text |-> s_OK, blank |-> TRUE], [text |-> l_63, blank |-> FALSE]>> >>)
    /\ Len(log) = 2
    /\ log[1].bytes = <<79, 75>>
    /\ Len(log[2].bytes) = 63
    /\ log[2].bytes = l_63
    /\ rx = <<>>

\* ----------------------------------------------------------------- LiveSpec
\* C22: when every read returns a byte and the line of the expected kind comes
\* after finitely many other lines, an exchange that waits for a response
\* ends (send_command returns).
C22_EventuallyReturns == (pc = "await") ~> (pc = "sent")

\* send(RST) returned on "ready" after two lines of another kind, each
\* answered by a retransmission
C22_Witness ==
    /\ pc = "sent"
    /\ op = Op("send", <<Cmd("RST", <<>>)>>)
    /\ last.response = "ready"
    /\ Len(Resps(XLog)) = 3
    /\ Len(Writes(XLog)) = 3

\* ---------------------------------------------------- results of operations
SendOps == StatusOps \cup {"send_data"}

LinkResps(l) == SelectSeq(l, LAMBDA e : e.ev = "resp" /\ e.kind \in LinkKinds)

\* C23: an operation built on send that returns, returns Ok(()); init, join_AP,
\* get_IP, tcp_server and udp_server return with connection_status = true,
\* whatever link notifications were read during the operation.
C23_NeverErr ==
    (pc = "done" /\ op.name \in SendOps) =>
        /\ result = "Ok"
        /\ op.name \in StatusOps => connection_status = TRUE
        /\ op.name = "send_data" => chk = TRUE

\* join_AP returned Ok(()) with connection_status = true; the last link
\* notification read, in the exchange of CIFSR, was WIFI DISCONNECT
C23_Witness ==
    /\ pc = "done"
    /\ op.name = "join_AP"
    /\ step = 2
    /\ LinkResps(XLog) # <<>>
    /\ LinkResps(log)[Len(LinkResps(log))].bytes = s_WIFI_DISCONNECT
    /\ got_ip = FALSE
    /\ connection_status = TRUE
    /\ result = "Ok"

\* -------------------------------------------- frames during an exchange
\* a step of the exchange loop that read a line starting with "+IPD"
IpdInExchange ==
    pc = "await" /\ rx' # rx /\ starts_with(read_serial(rx, 0, 0).buffer, s_IPD)

\* s without its first Len(s) - Len(t) bytes is t
IsRest(t, s) == Len(t) <= Len(s) /\ t = SubSeq(s, Len(s) - Len(t) + 1, Len(s))

\* C25: a +IPD frame read while send_command awaits a response is not
\* delivered: the step leaves the caller's buffer, the result and Device State
\* as they were, takes the frame's bytes off the stream, calls delay_ms(200),
\* writes the command once more and goes on waiting.
C25_FrameDropped ==
    [][ IpdInExchange =>
            /\ pc' = "await"
            /\ data' = data /\ result' = result
            /\ <<connection_status', got_ip', ip'>> = DeviceState
            /\ Len(log') = Len(log) + 3
            /\ log'[Len(log) + 1].kind = "IPD"
            /\ log'[Len(log) + 2] = EvDelay(200)
            /\ IsCommandWrite(log'[Len(log) + 3])
            /\ Len(rx') < Len(rx) /\ IsRest(rx', rx) ]_vars

\* C25 for the frames that fit the line buffer and the scratch buffer, here
\* "+IPD,2:hi": the step takes the whole frame off the stream and drops it
C25_ShortFrameDropped ==
    [][ (IpdInExchange /\ read_serial(rx, 0, 0).buffer = l_IPD) =>
            /\ pc' = "await"
            /\ data' = data /\ result' = result
            /\ <<connection_status', got_ip', ip'>> = DeviceState
            /\ Len(log') = Len(log) + 3
            /\ log'[Len(log) + 1].kind = "IPD"
            /\ log'[Len(log) + 2] = EvDelay(200)
            /\ IsCommandWrite(log'[Len(log) + 3])
            /\ rx = l_IPD \o <<CR, LF>> \o rx' ]_vars

\* --------------------------------------------------------------- ScriptSpec
\* send_data against a modem that answers by the book
MaxData == 2

\* payloads of 1..MaxData bytes over "h", "i"
Datas == UNION {[1..k -> {104, 105}] : k \in 1..MaxData}

\* the modem's lines for the payload d, in order: "OK" (the reply to
\* AT+CIPSEND=<len>), the prompt "> ", "Recv <len> bytes", "SEND OK"
ScriptLines(d) ==
    << s_OK, s_PROMPT, s_Recv \o <<32>> \o Dec(Len(d)) \o <<32, 98, 121, 116, 101, 115>>,
       l_SEND_OK >>

\* the modem emits its next line: the first two once AT+CIPSEND was written,
\* the last two once the payload was written
Emit ==
    /\ op.name = "send_data"
    /\ pc \in {"send", "await", "sent", "done"}
    /\ lines < Len(ScriptLines(op.args[1]))
    /\ IF lines < 2 THEN Len(log) > 0 ELSE step = 2 /\ Len(log) > x0
    /\ rx' = rx \o ScriptLines(op.args[1])[lines + 1] \o <<CR, LF>>
    /\ lines' = lines + 1
    /\ UNCHANGED <<connection_status, got_ip, ip, pc, op, step, send_, expected, endChar,
                   chk, data, result, last, log, old, xold, x0, faults>>

ScriptNext ==
    \/ \E d \in Datas : Call(Op("send_data", <<d>>))
    \/ SendCommand
    \/ AwaitResponse
    \/ AfterSend
    \/ Return
    \/ Emit

ScriptSpec == Init /\ [][ScriptNext]_vars

\* the writes of the payload of send_data, whole or cut short by a failure
PayloadWrites(l) == SelectSeq(l, LAMBDA e : e.ev = "write" /\ e.bytes = op.args[1])

\* C26: when send_data returns after the modem sent "OK", "> ", "Recv <len>
\* bytes" and "SEND OK" in this order and no read or write failed, the
\* payload was written to the transport exactly once.
C26_PayloadOnce ==
    (pc = "done" /\ op.name = "send_data" /\ lines = 4 /\ faults = 0)
        => Len(PayloadWrites(log)) = 1

====
